---------------------------- MODULE Spec2Model ----------------------------
(***************************************************************************)
(* Model of the writing-dashboard backend core:                            *)
(*   - CharacterExtractor.parse_extraction (services/character_extractor)  *)
(*   - ContextAggregator (services/context_aggregator)                     *)
(* Python strings are sequences of one-character strings, so that the      *)
(* regular expressions, str.strip, str.join and the f-strings of the code  *)
(* are computed character by character.                                    *)
(***************************************************************************)
EXTENDS Integers, Sequences, FiniteSets, TLC

VARIABLES
    extraction_text,   \* parse_extraction: the argument
    updates,           \* parse_extraction: the list it returns
    parse_pc,          \* "idle" | "called" | "returned"
    pairs,             \* the (name, body) pairs a well-formed text was written from
    character_notes,   \* _format_character_notes: the argument, in dict order
    formatted,         \* _format_character_notes: the string it returns
    format_pc,         \* "idle" | "called" | "returned"
    fs,                \* the document store: path -> node; no call writes it
    exists_propagates, \* whether Path.exists() lets a denied stat propagate
    aggregator,        \* the attributes of the shared ContextAggregator instance
    calls,             \* the ContextAggregator calls in progress, by request
    overlap,           \* history: a call took a step while another was under way
    requests,          \* the HTTP requests of main.py, each with its handler's position
    http_exception_has_str  \* whether the installed HTTPException defines __str__

parse_vars == <<extraction_text, updates, parse_pc, pairs>>
format_vars == <<character_notes, formatted, format_pc>>
agg_vars == <<fs, exists_propagates, aggregator, calls, overlap>>
handler_vars == <<requests, http_exception_has_str>>
vars == <<parse_vars, format_vars, agg_vars, handler_vars>>

---------------------------------------------------------------------------
(* Character classes of Python's re module and of str.strip.               *)

NL == "\n"
Whitespace == {" ", "\t", "\n", "\r"}
Upper == {"A","B","C","D","E","F","G","H","I","J","K","L","M",
          "N","O","P","Q","R","S","T","U","V","W","X","Y","Z"}
Lower == {"a","b","c","d","e","f","g","h","i","j","k","l","m",
          "n","o","p","q","r","s","t","u","v","w","x","y","z"}
Digit == {"0","1","2","3","4","5","6","7","8","9"}
WordChar == Upper \cup Lower \cup Digit \cup {"_"}

Word_Update == <<"U","p","d","a","t","e">>

\* First index >= p whose character is not in cls (Len(s)+1 when none): the
\* end of a greedy cls+ or cls* that starts at p.
RECURSIVE SpanEnd(_, _, _)
SpanEnd(s, p, cls) ==
    IF p <= Len(s) /\ s[p] \in cls THEN SpanEnd(s, p + 1, cls) ELSE p

\* First index >= p whose character is in cls (Len(s)+1 when none).  With
\* cls the newline: where a greedy .+ or .* that starts at p ends, and where
\* $ then matches under re.MULTILINE.
RECURSIVE NextIn(_, _, _)
NextIn(s, p, cls) ==
    IF p <= Len(s) /\ s[p] \notin cls THEN NextIn(s, p + 1, cls) ELSE p

LineEnd(s, p) == NextIn(s, p, {NL})

\* ^ under re.MULTILINE: the start of the string or just after a newline.
IsLineStart(s, p) == p = 1 \/ (p > 1 /\ p <= Len(s) + 1 /\ s[p - 1] = NL)

\* s[p..] starts with the word w.
StartsWithAt(s, p, w) ==
    /\ p >= 1
    /\ p + Len(w) - 1 <= Len(s)
    /\ \A k \in 1..Len(w) : s[p + k - 1] = w[k]

\* Last index in lo..hi whose character is not in cls (lo-1 when none).
RECURSIVE LastNotIn(_, _, _, _)
LastNotIn(s, lo, hi, cls) ==
    IF hi < lo THEN lo - 1
    ELSE IF s[hi] \notin cls THEN hi
    ELSE LastNotIn(s, lo, hi - 1, cls)

\* str.strip(): surrounding whitespace removed.
strip(s) ==
    LET a == SpanEnd(s, 1, Whitespace)
        b == LastNotIn(s, a, Len(s), Whitespace)
    IN  SubSeq(s, a, b)

---------------------------------------------------------------------------
\* re.split(r'^##\s+(.+)$', extraction_text, flags=re.MULTILINE)

NoMatch == [ok |-> FALSE, from |-> 0, to |-> 0]

\* The match of ^##\s+(.+)$ that starts at p: the group is s[from..to-1].
\* \s+ is greedy and may run over newlines; when the whitespace runs to the
\* end of the string it gives characters back until (.+) finds a character
\* that is not a newline.
HeadingAt(s, p) ==
    LET q == SpanEnd(s, p + 2, Whitespace)
    IN  IF ~(IsLineStart(s, p) /\ StartsWithAt(s, p, <<"#", "#">>) /\ q > p + 2)
        THEN NoMatch
        ELSE IF q <= Len(s)
        THEN [ok |-> TRUE, from |-> q, to |-> LineEnd(s, q)]
        ELSE LET m == LastNotIn(s, p + 3, Len(s), {NL})
             IN  IF m >= p + 3
                 THEN [ok |-> TRUE, from |-> m, to |-> LineEnd(s, m)]
                 ELSE NoMatch

\* The list re.split returns: text, group, text, group, ..., text.
RECURSIVE re_split_from(_, _, _)
re_split_from(s, start, p) ==
    IF p > Len(s) THEN <<SubSeq(s, start, Len(s))>>
    ELSE LET h == HeadingAt(s, p)
         IN  IF h.ok
             THEN <<SubSeq(s, start, p - 1), SubSeq(s, h.from, h.to - 1)>>
                      \o re_split_from(s, h.to, h.to)
             ELSE re_split_from(s, start, p + 1)

re_split_sections(s) == re_split_from(s, 1, 1)

---------------------------------------------------------------------------
\* re.sub(r'^###\s+.*?Update\s*\n', '', content, flags=re.MULTILINE)

\* .*?Update\s*\n from u: the lazy .*? stops at the first "Update" of the
\* line after which the whitespace holds a newline; the greedy \s* then ends
\* at the last newline of that whitespace.  The index after the match, or 0.
RECURSIVE LazyUpdateEnd(_, _)
LazyUpdateEnd(s, u) ==
    IF u + Len(Word_Update) - 1 > Len(s) THEN 0
    ELSE LET r == SpanEnd(s, u + Len(Word_Update), Whitespace)
             k == LastNotIn(s, u + Len(Word_Update), r - 1, Whitespace \ {NL})
         IN  IF StartsWithAt(s, u, Word_Update) /\ k >= u + Len(Word_Update)
             THEN k + 1
             ELSE IF s[u] = NL THEN 0
             ELSE LazyUpdateEnd(s, u + 1)

\* The index after the match of the timestamp-header pattern at p, or 0.
TimestampEnd(s, p) ==
    LET q == SpanEnd(s, p + 3, Whitespace)
    IN  IF IsLineStart(s, p) /\ StartsWithAt(s, p, <<"#", "#", "#">>) /\ q > p + 3
        THEN LazyUpdateEnd(s, q)
        ELSE 0

\* The substitution left out: the content is kept as it is.
re_sub_timestamp_Identity(content) == content

\* count=0: every non-overlapping match is replaced by ''.
RECURSIVE re_sub_from(_, _)
re_sub_from(s, p) ==
    IF p > Len(s) THEN <<>>
    ELSE LET e == TimestampEnd(s, p)
         IN  IF e > 0 THEN re_sub_from(s, e)
             ELSE <<s[p]>> \o re_sub_from(s, p + 1)

re_sub_timestamp(content) == re_sub_from(content, 1)

---------------------------------------------------------------------------
(* The primary, structured pass of parse_extraction.                       *)

\* SectionUpdates with `if character_name:` for `if character_name and content:`
\* and no test of update_content.
SectionUpdates_NoContentTest(name_group, section) ==
    LET character_name == strip(name_group)
        content == strip(section)
        update_content == strip(re_sub_timestamp(content))
    IN  IF character_name # <<>>
        THEN <<[character |-> character_name, update |-> update_content]>>
        ELSE <<>>

\* The body of the for loop for one (heading, section) pair of the split.
SectionUpdates(name_group, section) ==
    LET character_name == strip(name_group)
        content == strip(section)
        update_content == strip(re_sub_timestamp(content))
    IN  IF character_name # <<>> /\ content # <<>> /\ update_content # <<>>
        THEN <<[character |-> character_name, update |-> update_content]>>
        ELSE <<>>

\* for i in range(1, len(character_sections), 2): Python's indices i, i+1
\* are the indices i+1, i+2 here.
RECURSIVE PrimaryFrom(_, _)
PrimaryFrom(character_sections, i) ==
    IF i > Len(character_sections) THEN <<>>
    ELSE (IF i + 1 <= Len(character_sections)
          THEN SectionUpdates(character_sections[i], character_sections[i + 1])
          ELSE <<>>)
         \o PrimaryFrom(character_sections, i + 2)

PrimaryPass(text) == PrimaryFrom(re_split_sections(text), 2)

---------------------------------------------------------------------------
\* The fallback: re.findall(r'\b([A-Z][a-z]+(?:\s+[A-Z][a-z]+)*)\b', text)

IsWordAt(s, p) == p >= 1 /\ p <= Len(s) /\ s[p] \in WordChar

\* \b between s[p-1] and s[p].
AtBoundary(s, p) == IsWordAt(s, p - 1) # IsWordAt(s, p)

\* [A-Z][a-z]+ at p: the index after it, or 0.
CapWordEnd(s, p) ==
    IF p + 1 <= Len(s) /\ s[p] \in Upper /\ s[p + 1] \in Lower
    THEN SpanEnd(s, p + 1, Lower)
    ELSE 0

\* The greedy group (?:\s+[A-Z][a-z]+)* and the closing \b after a word that ends before e: greedy, so as many
\* further words as leave the match ending on a word boundary.  The index
\* after the match, or 0.
RECURSIVE CapRunEnd(_, _)
CapRunEnd(s, e) ==
    LET w == SpanEnd(s, e, Whitespace)
        e2 == IF w > e THEN CapWordEnd(s, w) ELSE 0
        longer == IF e2 > 0 THEN CapRunEnd(s, e2) ELSE 0
    IN  IF longer > 0 THEN longer
        ELSE IF AtBoundary(s, e) THEN e
        ELSE 0

\* The index after the match of the whole pattern at p, or 0.
NameEnd(s, p) ==
    LET e == CapWordEnd(s, p)
    IN  IF AtBoundary(s, p) /\ e > 0 THEN CapRunEnd(s, e) ELSE 0

RECURSIVE re_findall_from(_, _)
re_findall_from(s, p) ==
    IF p > Len(s) THEN <<>>
    ELSE LET e == NameEnd(s, p)
         IN  IF e > 0 THEN <<SubSeq(s, p, e - 1)>> \o re_findall_from(s, e)
             ELSE re_findall_from(s, p + 1)

re_findall_names(text) == re_findall_from(text, 1)

\* len(char_name.split()): the number of whitespace-separated words.
RECURSIVE CountWordsFrom(_, _)
CountWordsFrom(s, p) ==
    LET a == SpanEnd(s, p, Whitespace)
    IN  IF a > Len(s) THEN 0
        ELSE 1 + CountWordsFrom(s, NextIn(s, a, Whitespace))

len_split(char_name) == CountWordsFrom(char_name, 1)

MaxNameWords == 3

\* The loop with seen.add(char_name) left out.
RECURSIVE FallbackFrom_NoSeen(_, _, _, _)
FallbackFrom_NoSeen(potential_characters, i, seen, text) ==
    IF i > Len(potential_characters) THEN <<>>
    ELSE LET char_name == potential_characters[i]
         IN  IF char_name \notin seen /\ len_split(char_name) <= MaxNameWords
             THEN <<[character |-> char_name, update |-> text]>>
                      \o FallbackFrom_NoSeen(potential_characters, i + 1, seen, text)
             ELSE FallbackFrom_NoSeen(potential_characters, i + 1, seen, text)

\* The loop over potential_characters with its seen set.
RECURSIVE FallbackFrom(_, _, _, _)
FallbackFrom(potential_characters, i, seen, text) ==
    IF i > Len(potential_characters) THEN <<>>
    ELSE LET char_name == potential_characters[i]
         IN  IF char_name \notin seen /\ len_split(char_name) <= MaxNameWords
             THEN <<[character |-> char_name, update |-> text]>>
                      \o FallbackFrom(potential_characters, i + 1,
                                      seen \cup {char_name}, text)
             ELSE FallbackFrom(potential_characters, i + 1, seen, text)

FallbackPass(text) == FallbackFrom(re_findall_names(text), 1, {}, text)

\* parse_extraction with the fallback run after every primary pass.
parse_extraction_AlwaysFallback(text) == PrimaryPass(text) \o FallbackPass(text)

\* CharacterExtractor.parse_extraction
parse_extraction(text) ==
    LET primary == PrimaryPass(text)
    IN  IF primary = <<>> THEN FallbackPass(text) ELSE primary

---------------------------------------------------------------------------
(* Inputs of parse_extraction: model output assembled from a few pieces.   *)

Str_Alice == <<"A","l","i","c","e">>
Str_Bob == <<"B","o","b">>
Str_BobCarter == Str_Bob \o <<" ","C","a","r","t","e","r">>
Str_SaidHello == <<"S","a","i","d"," ","h","e","l","l","o">>
Str_Met == <<" ","m","e","t"," ">>
Str_DanLee == <<" ","D","a","n"," ","L","e","e">>
H2 == <<"#","#"," ">>
\* "### t - Update"
TimestampLine == <<"#","#","#"," ","t"," ","-"," ">> \o Word_Update

\* "## Alice\n### t - Update\n\n": a section whose body is empty
Block_EmptySection == H2 \o Str_Alice \o <<NL>> \o TimestampLine \o <<NL, NL>>
\* "## Bob\n### t - Update\nSaid hello"
Block_BobSection == H2 \o Str_Bob \o <<NL>> \o TimestampLine \o <<NL>> \o Str_SaidHello
\* "\n### t - Update\n": a further timestamp line
Block_LaterTimestamp == <<NL>> \o TimestampLine \o <<NL>>
\* "Alice met Bob Carter"
Block_Prose == Str_Alice \o Str_Met \o Str_BobCarter
\* "## Alice\n": a heading with nothing under it
Block_BareHeading == H2 \o Str_Alice \o <<NL>>
\* " met\n": no heading, no capitalized word
Block_Lower == <<" ","m","e","t",NL>>

Blocks == {Block_EmptySection, Block_BobSection, Block_LaterTimestamp,
           Block_Prose, Block_BareHeading, H2, Block_Lower, Str_DanLee}

MaxBlocks == 3

RECURSIVE Concat(_)
Concat(ss) == IF ss = <<>> THEN <<>> ELSE Head(ss) \o Concat(Tail(ss))

BlockSeqs == UNION {[1..n -> Blocks] : n \in 0..MaxBlocks}

Inputs == {Concat(bs) : bs \in BlockSeqs}

---------------------------------------------------------------------------
(* parse_extraction as an operation: called with a text, it returns.       *)

FormatIdle ==
    /\ character_notes = <<>>
    /\ formatted = <<>>
    /\ format_pc = "idle"

AggIdle ==
    /\ fs = <<>>
    /\ exists_propagates = FALSE
    /\ aggregator = {}
    /\ calls = <<>>
    /\ overlap = FALSE

HandlersIdle ==
    /\ requests = <<>>
    /\ http_exception_has_str = FALSE

InitParse ==
    /\ extraction_text \in Inputs
    /\ updates = <<>>
    /\ parse_pc = "called"
    /\ pairs = <<>>
    /\ FormatIdle
    /\ AggIdle
    /\ HandlersIdle

ParseExtraction ==
    /\ parse_pc = "called"
    /\ updates' = parse_extraction(extraction_text)
    /\ parse_pc' = "returned"
    /\ UNCHANGED <<extraction_text, pairs, format_vars, agg_vars, handler_vars>>

NextParse == ParseExtraction

SpecParse == InitParse /\ [][NextParse]_vars

---------------------------------------------------------------------------
(* Properties of parse_extraction.                                         *)

Returned == parse_pc = "returned"

\* s holds w as a contiguous substring.
Contains(s, w) == \E p \in 1..(Len(s) - Len(w) + 1) : StartsWithAt(s, p, w)

Rec(name, body) == [character |-> name, update |-> body]

\* The (heading, section) pairs of the text, as split on level-2 headings.
SectionsOf(text) ==
    LET parts == re_split_sections(text)
    IN  [k \in 1..((Len(parts) - 1) \div 2) |->
            [name |-> parts[2 * k], section |-> parts[2 * k + 1]]]

\* A line of the form "### <timestamp> - Update": s[p..e-1] with e the end
\* of the line.
IsTimestampHeadingLine(s, p) ==
    LET e == LineEnd(s, p)
        last == LastNotIn(s, p, e - 1, Whitespace)
    IN  /\ StartsWithAt(s, p, <<"#", "#", "#">>)
        /\ p + 3 < e
        /\ s[p + 3] \in Whitespace
        /\ last - Len(Word_Update) + 1 > p + 3
        /\ StartsWithAt(s, last - Len(Word_Update) + 1, Word_Update)

\* The section body as the specification describes it: the trimmed section
\* without its leading timestamp heading line (if it has one), trimmed.
IntendedBody(section) ==
    LET content == strip(section)
    IN  IF content # <<>> /\ IsTimestampHeadingLine(content, 1)
        THEN strip(SubSeq(content, LineEnd(content, 1) + 1, Len(content)))
        ELSE content

C1_Example == Block_EmptySection \o Block_BobSection

\* C1: a section whose body is empty once its leading timestamp heading line
\* is removed yields no record; the text "## Alice\n### t - Update\n\n## Bob\n
\* ### t - Update\nSaid hello" yields exactly the record (Bob, Said hello).
C1_EmptyBodySectionDropped ==
    (Returned /\ extraction_text = C1_Example)
        => updates = <<Rec(Str_Bob, Str_SaidHello)>>

\* C10: within a section only one, leading, timestamp heading line is
\* stripped: every section with a name and a non-empty intended body (its
\* later timestamp lines kept) has a record carrying exactly that body.
C10_LaterTimestampLineKept ==
    Returned =>
        \A k \in DOMAIN SectionsOf(extraction_text) :
            LET sec == SectionsOf(extraction_text)[k]
            IN  (strip(sec.name) # <<>> /\ IntendedBody(sec.section) # <<>>)
                    => \E i \in DOMAIN updates :
                           updates[i] = Rec(strip(sec.name), IntendedBody(sec.section))

\* A record of the fallback carries the whole input as its update; a record
\* of the primary pass carries part of one section, which is shorter.
IsHeuristicRecord(r) == r.update = extraction_text

\* The number of lines of the text that start with "##".
HeadingMarks(text) ==
    Cardinality({p \in 1..Len(text) :
                    IsLineStart(text, p) /\ StartsWithAt(text, p, <<"#", "#">>)})

\* C4: when the primary pass yields at least one record, the result is
\* exactly the primary records and holds no heuristic record.
C4_FallbackOnlyOnZero ==
    (Returned /\ PrimaryPass(extraction_text) # <<>>) =>
        /\ updates = PrimaryPass(extraction_text)
        /\ \A i \in DOMAIN updates : ~IsHeuristicRecord(updates[i])
        /\ Len(updates) <= HeadingMarks(extraction_text)

\* Partial success: a record was kept, a section was dropped, and the
\* heuristic would have found names had it run.
C4_Witness ==
    /\ Returned
    /\ updates # <<>>
    /\ Len(SectionsOf(extraction_text)) > Len(updates)
    /\ \A i \in DOMAIN updates : ~IsHeuristicRecord(updates[i])
    /\ FallbackPass(extraction_text) # <<>>

NoHeading(text) == HeadingMarks(text) = 0

NoCapitalizedWord(text) ==
    \A p \in 1..(Len(text) - 1) : ~(text[p] \in Upper /\ text[p + 1] \in Lower)

\* C6: every returned record has a non-empty character and a non-empty
\* update; a text with no heading and no capitalized word yields no record.
C6_RecordsNonEmpty ==
    Returned =>
        /\ \A i \in DOMAIN updates :
               updates[i].character # <<>> /\ updates[i].update # <<>>
        /\ (NoHeading(extraction_text) /\ NoCapitalizedWord(extraction_text))
               => updates = <<>>

\* A primary-pass result next to a section that was dropped for being empty.
C6_Witness ==
    /\ Returned
    /\ updates # <<>>
    /\ \A i \in DOMAIN updates : ~IsHeuristicRecord(updates[i])
    /\ \E k \in DOMAIN SectionsOf(extraction_text) :
           strip(SectionsOf(extraction_text)[k].section) = <<>>

\* A text with neither heading nor capitalized word was parsed.
C6_WitnessEmpty ==
    /\ Returned
    /\ extraction_text # <<>>
    /\ NoHeading(extraction_text) /\ NoCapitalizedWord(extraction_text)

---------------------------------------------------------------------------
(* The fallback's candidates, described by position rather than by scan.   *)

\* text[i..j-1] is a run of capitalized words: each word one capital letter
\* followed by lowercase letters, the words separated by whitespace.
IsCapitalizedRun(text, i, j) ==
    /\ 1 <= i /\ i < j /\ j <= Len(text) + 1
    /\ text[i] \in Upper
    /\ text[j - 1] \in Lower
    /\ \A k \in i..(j - 1) :
          /\ text[k] \in Upper \cup Lower \cup Whitespace
          /\ text[k] \in Upper =>
                /\ k = i \/ text[k - 1] \in Whitespace
                /\ k + 1 <= j - 1 /\ text[k + 1] \in Lower
          /\ text[k] \in Lower => text[k - 1] \in Upper \cup Lower
          /\ text[k] \in Whitespace => text[k + 1] \in Whitespace \cup Upper

\* Runs delimited by word boundaries on both sides.
DelimitedRuns(text) ==
    LET starts == {i \in 1..Len(text) :
                      text[i] \in Upper /\ (i = 1 \/ text[i - 1] \notin WordChar)}
        ends == {j \in 2..(Len(text) + 1) :
                      text[j - 1] \in Lower /\ (j = Len(text) + 1 \/ text[j] \notin WordChar)}
    IN  {r \in starts \X ends : IsCapitalizedRun(text, r[1], r[2])}

\* Those contained in no other one.
MaximalRuns(text) ==
    LET runs == DelimitedRuns(text)
    IN  {r \in runs : \A q \in runs : (q[1] <= r[1] /\ r[2] <= q[2]) => q = r}

\* Every word of a run has exactly one capital letter.
WordsIn(text, r) == Cardinality({k \in r[1]..(r[2] - 1) : text[k] \in Upper})

CandidateRuns(text) == {r \in MaximalRuns(text) : WordsIn(text, r) <= 3}

RunText(text, r) == SubSeq(text, r[1], r[2] - 1)

\* Where a name first appears as a candidate.
FirstAppearance(text, name) ==
    LET at == {r[1] : r \in {q \in CandidateRuns(text) : RunText(text, q) = name}}
    IN  CHOOSE p \in at : \A q \in at : p <= q

FallbackRan == Returned /\ PrimaryPass(extraction_text) = <<>>

\* C5 as amended: when the fallback runs, the records are one per distinct
\* candidate name, the candidates being the maximal capitalized-word runs of
\* at most three words (a longer run is discarded whole), in order of first
\* appearance, each with the whole input as update; the input "Alice met Bob
\* Carter" itself yields the records for "Alice" and "Bob Carter".
C5_FallbackCandidates ==
    FallbackRan =>
        /\ \A i \in DOMAIN updates : updates[i].update = extraction_text
        /\ \A i, k \in DOMAIN updates :
               i # k => updates[i].character # updates[k].character
        /\ {updates[i].character : i \in DOMAIN updates}
               = {RunText(extraction_text, r) : r \in CandidateRuns(extraction_text)}
        /\ \A i, k \in DOMAIN updates :
               i < k => FirstAppearance(extraction_text, updates[i].character)
                            < FirstAppearance(extraction_text, updates[k].character)
        /\ extraction_text = Block_Prose
               => updates = <<Rec(Str_Alice, Block_Prose), Rec(Str_BobCarter, Block_Prose)>>

\* The fallback ran on a text where a name recurs and a run of more than
\* three words was discarded.
C5_Witness ==
    /\ FallbackRan
    /\ Len(updates) >= 2
    /\ Cardinality(MaximalRuns(extraction_text)) > Len(updates)
    /\ \E r \in MaximalRuns(extraction_text) : WordsIn(extraction_text, r) > 3

\* The text holds the sentence w with no word character right before or
\* after it.
ContainsPhrase(text, w) ==
    \E p \in 1..(Len(text) - Len(w) + 1) :
        /\ StartsWithAt(text, p, w)
        /\ ~IsWordAt(text, p - 1)
        /\ ~IsWordAt(text, p + Len(w))

\* C5 as stated: the records of the fallback carry the whole input and have
\* distinct names, and every input without "## " headings that contains
\* "Alice met Bob Carter" yields records for "Alice" and "Bob Carter".
C5_Original ==
    FallbackRan =>
        /\ \A i \in DOMAIN updates : updates[i].update = extraction_text
        /\ \A i, k \in DOMAIN updates :
               i # k => updates[i].character # updates[k].character
        /\ (NoHeading(extraction_text) /\ ContainsPhrase(extraction_text, Block_Prose))
               => /\ \E i \in DOMAIN updates : updates[i].character = Str_Alice
                  /\ \E i \in DOMAIN updates : updates[i].character = Str_BobCarter

---------------------------------------------------------------------------
(* parse_extraction on text written in the expected heading format.        *)

Str_Al == <<"A","l">>
Str_BoSp == <<"B","o"," ">>
Str_Hi == <<"h","i">>

PairNames == {Str_Al, Str_BoSp, <<" ">>}

PairBodies ==
    { Str_Hi,
      <<" ">> \o Str_Hi \o <<NL>>,                          \* " hi\n"
      <<" ">>,                                              \* blank
      <<"a", NL>> \o H2 \o Str_Al,                          \* "a\n## Al"
      <<"x", NL>> \o TimestampLine \o <<NL, "y">>,          \* "x\n### t - Update\ny"
      <<"#", "#">> }                                        \* "##"

MaxPairs == 2

PairSeqs == UNION {[1..n -> PairNames \X PairBodies] : n \in 0..MaxPairs}

\* "## <name>\n### t - Update\n<body>\n" per pair.
RECURSIVE FormatSections(_)
FormatSections(ps) ==
    IF ps = <<>> THEN <<>>
    ELSE H2 \o Head(ps)[1] \o <<NL>> \o TimestampLine \o <<NL>> \o Head(ps)[2] \o <<NL>>
             \o FormatSections(Tail(ps))

InitWellFormed ==
    /\ pairs \in PairSeqs
    /\ extraction_text = FormatSections(pairs)
    /\ updates = <<>>
    /\ parse_pc = "called"
    /\ FormatIdle
    /\ AggIdle
    /\ HandlersIdle

SpecWellFormed == InitWellFormed /\ [][NextParse]_vars

\* Some line of the body starts with "##".
HasHeadingLine(body) ==
    \E p \in 1..Len(body) : IsLineStart(body, p) /\ StartsWithAt(body, p, <<"#", "#">>)

NonBlank(s) == \E k \in 1..Len(s) : s[k] \notin Whitespace

AllNonBlank ==
    \A i \in DOMAIN pairs : NonBlank(pairs[i][1]) /\ NonBlank(pairs[i][2])

RecordsMatchPairs ==
    /\ Len(updates) = Len(pairs)
    /\ \A i \in DOMAIN pairs : updates[i] = Rec(strip(pairs[i][1]), strip(pairs[i][2]))

\* C3 as amended: N pairs whose names are single lines with a non-blank
\* character and whose bodies have a non-blank character and no line starting
\* with "##" parse to exactly N records, in input order, with the trimmed
\* name and the trimmed body; a repeated name yields a record per heading.
C3_StructuredParse ==
    (Returned /\ AllNonBlank
        /\ \A i \in DOMAIN pairs :
               ~Contains(pairs[i][1], <<NL>>) /\ ~HasHeadingLine(pairs[i][2]))
        => RecordsMatchPairs

\* Two well-formed pairs with the same name, one body needing a trim.
C3_Witness ==
    /\ Returned
    /\ Len(pairs) = 2
    /\ pairs[1][1] = pairs[2][1]
    /\ pairs[1][2] # pairs[2][2]
    /\ AllNonBlank
    /\ \A i \in DOMAIN pairs : ~HasHeadingLine(pairs[i][2])
    /\ \E i \in DOMAIN pairs : strip(pairs[i][2]) # pairs[i][2]
    /\ Len(updates) = 2

\* C3 as stated, for any body (read with names and bodies that are not
\* blank, and the character compared with the trimmed name).
C3_Original == (Returned /\ AllNonBlank) => RecordsMatchPairs

---------------------------------------------------------------------------
(* ContextAggregator._format_character_notes                               *)

\* "[No character notes found]"
Str_NoNotes ==
    <<"[","N","o"," ","c","h","a","r","a","c","t","e","r"," ",
      "n","o","t","e","s"," ","f","o","u","n","d","]">>

\* "\n---\n\n"
Separator == <<NL, "-", "-", "-", NL, NL>>

\* f"## {name}\n{content}" : the chunk without its closing newline.
FormatEntry_NoClosingNewline(name, content) == H2 \o name \o <<NL>> \o content

\* f"## {name}\n{content}\n"
FormatEntry(name, content) == H2 \o name \o <<NL>> \o content \o <<NL>>

\* sep.join(parts)
RECURSIVE str_join(_, _)
str_join(sep, parts) ==
    IF parts = <<>> THEN <<>>
    ELSE IF Len(parts) = 1 THEN parts[1]
    ELSE parts[1] \o sep \o str_join(sep, Tail(parts))

\* character_notes is the dict in insertion order: a sequence of entries
\* with distinct names.
format_character_notes(notes) ==
    IF notes = <<>> THEN Str_NoNotes
    ELSE str_join(Separator, [i \in 1..Len(notes) |->
                                  FormatEntry(notes[i].name, notes[i].content)])

NoteNames == {Str_Al, Str_Bob, <<"A", NL, "b">>}

NoteBodies ==
    { Str_Hi,
      <<>>,
      <<"-", "-", "-">>,                                   \* "---"
      <<"a", NL, "-", "-", "-", NL, NL, "b">>,             \* "a\n---\n\nb"
      <<"a", NL, "-", "-", "-", NL, "b">> }                \* "a\n---\nb"

MaxNotes == 2

NoteSets ==
    UNION {{ns \in [1..n -> [name : NoteNames, content : NoteBodies]] :
               \A i, k \in 1..n : i # k => ns[i].name # ns[k].name} : n \in 0..MaxNotes}

ParseIdle ==
    /\ extraction_text = <<>>
    /\ updates = <<>>
    /\ parse_pc = "idle"
    /\ pairs = <<>>

InitFormat ==
    /\ character_notes \in NoteSets
    /\ formatted = <<>>
    /\ format_pc = "called"
    /\ ParseIdle
    /\ AggIdle
    /\ HandlersIdle

FormatCharacterNotes ==
    /\ format_pc = "called"
    /\ formatted' = format_character_notes(character_notes)
    /\ format_pc' = "returned"
    /\ UNCHANGED <<character_notes, parse_vars, agg_vars, handler_vars>>

NextFormat == FormatCharacterNotes

SpecFormat == InitFormat /\ [][NextFormat]_vars

\* str.split(sep): the pieces between the leftmost non-overlapping
\* occurrences of sep.
RECURSIVE SplitFrom(_, _, _, _)
SplitFrom(s, sep, start, p) ==
    IF p + Len(sep) - 1 > Len(s) THEN <<SubSeq(s, start, Len(s))>>
    ELSE IF StartsWithAt(s, p, sep)
    THEN <<SubSeq(s, start, p - 1)>> \o SplitFrom(s, sep, p + Len(sep), p + Len(sep))
    ELSE SplitFrom(s, sep, start, p + 1)

SplitOn(s, sep) == SplitFrom(s, sep, 1, 1)

\* A chunk read back: the heading line gives the name, the rest without its
\* closing newline the body.  <<>> when the chunk has not that shape.
ReadChunk(chunk) ==
    LET e == LineEnd(chunk, 1)
    IN  IF StartsWithAt(chunk, 1, H2) /\ e <= Len(chunk) /\ chunk[Len(chunk)] = NL
        THEN <<[name |-> SubSeq(chunk, Len(H2) + 1, e - 1),
                content |-> SubSeq(chunk, e + 1, Len(chunk) - 1)]>>
        ELSE <<>>

RoundTrips ==
    LET chunks == SplitOn(formatted, Separator)
    IN  /\ Len(chunks) = Len(character_notes)
        /\ \A i \in DOMAIN chunks : ReadChunk(chunks[i]) = <<character_notes[i]>>

FormatReturned == format_pc = "returned"

\* The body has a "---" line that is followed by an empty line or that ends
\* the body.
HasSeparatorLine(content) ==
    LET framed == <<NL>> \o content \o <<NL>>
    IN  \/ Contains(framed, Separator)
        \/ StartsWithAt(framed, Len(framed) - 4, <<NL, "-", "-", "-", NL>>)

---------------------------------------------------------------------------
(* The document store as pathlib sees it.                                  *)

\* "[Error reading file: "
Str_ErrorReadingFile ==
    <<"[","E","r","r","o","r"," ","r","e","a","d","i","n","g"," ","f","i",
      "l","e",":"," ">>

\* "[Smart Connections data loaded - similarity search available]"
Str_SCLoaded ==
    <<"[","S","m","a","r","t"," ","C","o","n","n","e","c","t","i","o","n",
      "s"," ","d","a","t","a"," ","l","o","a","d","e","d"," ","-"," ","s",
      "i","m","i","l","a","r","i","t","y"," ","s","e","a","r","c","h"," ",
      "a","v","a","i","l","a","b","l","e","]">>

\* "[Smart Connections: Error loading data - "
Str_SCError ==
    <<"[","S","m","a","r","t"," ","C","o","n","n","e","c","t","i","o","n",
      "s",":"," ","E","r","r","o","r"," ","l","o","a","d","i","n","g"," ",
      "d","a","t","a"," ","-"," ">>

\* "[Smart Connections: No data found - ensure plugin is installed and has indexed your vault]"
Str_SCNoData ==
    <<"[","S","m","a","r","t"," ","C","o","n","n","e","c","t","i","o","n",
      "s",":"," ","N","o"," ","d","a","t","a"," ","f","o","u","n","d"," ",
      "-"," ","e","n","s","u","r","e"," ","p","l","u","g","i","n"," ","i",
      "s"," ","i","n","s","t","a","l","l","e","d"," ","a","n","d"," ","h",
      "a","s"," ","i","n","d","e","x","e","d"," ","y","o","u","r"," ","v",
      "a","u","l","t","]">>

\* "[Errno 2] No such file or directory"
Str_Errno2 ==
    <<"[","E","r","r","n","o"," ","2","]"," ","N","o"," ","s","u","c","h",
      " ","f","i","l","e"," ","o","r"," ","d","i","r","e","c","t","o","r",
      "y">>

\* "[Errno 13] Permission denied"
Str_Errno13 ==
    <<"[","E","r","r","n","o"," ","1","3","]"," ","P","e","r","m","i","s",
      "s","i","o","n"," ","d","e","n","i","e","d">>

\* "[Errno 21] Is a directory"
Str_Errno21 ==
    <<"[","E","r","r","n","o"," ","2","1","]"," ","I","s"," ","a"," ","d",
      "i","r","e","c","t","o","r","y">>

\* "'utf-8' codec can't decode byte 0xff in position "
Str_DecodeHead ==
    <<"'","u","t","f","-","8","'"," ","c","o","d","e","c"," ","c","a","n",
      "'","t"," ","d","e","c","o","d","e"," ","b","y","t","e"," ","0","x",
      "f","f"," ","i","n"," ","p","o","s","i","t","i","o","n"," ">>

\* ": invalid start byte"
Str_DecodeTail ==
    <<":"," ","i","n","v","a","l","i","d"," ","s","t","a","r","t"," ","b",
      "y","t","e">>

\* "Expecting value: line 1 column 1 (char 0)"
Str_JsonError ==
    <<"E","x","p","e","c","t","i","n","g"," ","v","a","l","u","e",":"," ",
      "l","i","n","e"," ","1"," ","c","o","l","u","m","n"," ","1"," ","(",
      "c","h","a","r"," ","0",")">>

\* ".obsidian/plugins/smart-connections/data.json"
SmartConnectionsData ==
    <<".","o","b","s","i","d","i","a","n","/","p","l","u","g","i","n","s",
      "/","s","m","a","r","t","-","c","o","n","n","e","c","t","i","o","n",
      "s","/","d","a","t","a",".","j","s","o","n">>

\* ".md"
Str_MdSuffix ==
    <<".","m","d">>

\* A result of a call: a returned value, or a raised exception with str(e).
Return(v) == [raised |-> FALSE, value |-> v]
Raise(msg) == [raised |-> TRUE, value |-> msg]

\* A node of the file system.  st is "missing" (no such file), "unreadable"
\* (stat succeeds, open is denied), "unsearchable" (a directory on the way
\* denies search, so stat is denied too), "file" (data: its bytes) or "dir"
\* (data: the names it lists).  A byte that is not valid UTF-8 is "0xff".
Missing == [st |-> "missing", data |-> <<>>]
Unreadable == [st |-> "unreadable", data |-> <<>>]
Unsearchable == [st |-> "unsearchable", data |-> <<>>]
File(bytes) == [st |-> "file", data |-> bytes]
Dir(names) == [st |-> "dir", data |-> names]

InvalidByte == "0xff"
CR == "\r"

\* Path.__truediv__ with a relative right-hand side.
PathJoin(a, b) == a \o <<"/">> \o b

\* str(e) of an OSError: "[Errno n] text: 'path'"
OSErrorText(text, path) == text \o <<":", " ", "'">> \o path \o <<"'">>

DigitChars == <<"0","1","2","3","4","5","6","7","8","9">>

\* Text mode with newline=None: "\r\n" and "\r" are read as "\n".
RECURSIVE UniversalNewlines(_)
UniversalNewlines(bytes) ==
    IF bytes = <<>> THEN <<>>
    ELSE IF Head(bytes) = CR
    THEN <<NL>> \o UniversalNewlines(
             IF Len(bytes) >= 2 /\ bytes[2] = NL THEN SubSeq(bytes, 3, Len(bytes))
             ELSE Tail(bytes))
    ELSE <<Head(bytes)>> \o UniversalNewlines(Tail(bytes))

\* Path.read_text(encoding='utf-8')
read_text(files, path) ==
    LET node == files[path]
        bad == NextIn(node.data, 1, {InvalidByte})
    IN  CASE node.st = "missing" -> Raise(OSErrorText(Str_Errno2, path))
          [] node.st \in {"unreadable", "unsearchable"} ->
                 Raise(OSErrorText(Str_Errno13, path))
          [] node.st = "dir" -> Raise(OSErrorText(Str_Errno21, path))
          [] node.st = "file" ->
                 IF bad <= Len(node.data)
                 THEN Raise(Str_DecodeHead \o <<DigitChars[bad]>> \o Str_DecodeTail)
                 ELSE Return(UniversalNewlines(node.data))

\* Path.exists(): stat, with ENOENT read as False.  A denied stat raises
\* PermissionError up to Python 3.12 and is read as False from 3.13 on:
\* propagates says which.
path_exists(files, path, propagates) ==
    LET node == files[path]
    IN  CASE node.st = "missing" -> Return(FALSE)
          [] node.st = "unsearchable" ->
                 IF propagates THEN Raise(OSErrorText(Str_Errno13, path))
                 ELSE Return(FALSE)
          [] OTHER -> Return(TRUE)

\* json.loads on the texts the store holds: "{}" parses, the others do not.
JsonTexts == {<<"{", "}">>}

---------------------------------------------------------------------------
(* ContextAggregator                                                       *)

\* _read_file without its try/except.
read_file_NoTry(files, file_path) == read_text(files, file_path)

\* ContextAggregator._read_file
read_file(files, file_path) ==
    LET r == read_text(files, file_path)
    IN  IF r.raised THEN Return(Str_ErrorReadingFile \o r.value \o <<"]">>)
        ELSE r

\* ContextAggregator._get_smart_connections; limit is not used by the code.
get_smart_connections(files, vault, limit, propagates) ==
    LET sc_data_path == PathJoin(vault, SmartConnectionsData)
        exists == path_exists(files, sc_data_path, propagates)
        r == read_text(files, sc_data_path)
    IN  IF exists.raised THEN exists
        ELSE IF exists.value
        THEN IF r.raised
             THEN Return(Str_SCError \o r.value \o <<"]">>)
             ELSE IF r.value \in JsonTexts
             THEN Return(Str_SCLoaded)
             ELSE Return(Str_SCError \o Str_JsonError \o <<"]">>)
        ELSE Return(Str_SCNoData)

\* The file name ends in ".md": it is matched by glob('*.md').
IsMd(name) ==
    Len(name) >= Len(Str_MdSuffix)
        /\ StartsWithAt(name, Len(name) - Len(Str_MdSuffix) + 1, Str_MdSuffix)

\* The loop of _get_all_character_notes over the names the folder lists.
RECURSIVE NotesFrom(_, _, _, _)
NotesFrom(files, character_folder, names, i) ==
    IF i > Len(names) THEN <<>>
    ELSE (IF IsMd(names[i])
          THEN <<[name |-> SubSeq(names[i], 1, Len(names[i]) - Len(Str_MdSuffix)),
                  content |-> read_file(files, PathJoin(character_folder, names[i])).value]>>
          ELSE <<>>)
         \o NotesFrom(files, character_folder, names, i + 1)

\* ContextAggregator._get_all_character_notes: the dict, in insertion order.
get_all_character_notes(files, character_folder, propagates) ==
    LET exists == path_exists(files, character_folder, propagates)
        node == files[character_folder]
    IN  IF exists.raised THEN exists
        ELSE IF ~exists.value THEN Return(<<>>)
        ELSE IF node.st = "dir"
        THEN Return(NotesFrom(files, character_folder, node.data, 1))
        ELSE Return(<<>>)

---------------------------------------------------------------------------
(* The three public operations, one dict entry at a time.                  *)

\* The entries of each returned dict, in the order Python evaluates them.
\* get_character_notes returns the notes themselves: one entry, "notes".
Keys(kind) ==
    CASE kind = "chapter" ->
             <<"smart_connections", "book2", "story_bible", "extractions",
               "sliding_window">>
      [] kind = "micro_edit" ->
             <<"sliding_window", "story_bible", "extractions", "character_notes",
               "smart_connections">>
      [] kind = "character_notes" -> <<"notes">>

Kinds == {"chapter", "micro_edit", "character_notes"}

\* request.settings: the relative paths of a request.
Settings ==
    [book2 |-> <<"b">>, story_bible |-> <<"s">>, extractions |-> <<"e">>,
     sliding_window |-> <<"w">>, character_folder |-> <<"c">>]

FileKeys == {"book2", "story_bible", "extractions", "sliding_window"}

\* The value of one entry of the dict a call builds.
ResolveEntry(files, propagates, kind, vault, key) ==
    CASE key \in FileKeys -> read_file(files, PathJoin(vault, Settings[key]))
      [] key = "smart_connections" ->
             get_smart_connections(files, vault,
                                   IF kind = "micro_edit" THEN 32 ELSE 64, propagates)
      [] key = "character_notes" ->
             LET notes == get_all_character_notes(
                              files, PathJoin(vault, Settings.character_folder), propagates)
             IN  IF notes.raised THEN notes
                 ELSE Return(format_character_notes(notes.value))
      [] key = "notes" ->
             get_all_character_notes(
                 files, PathJoin(vault, Settings.character_folder), propagates)

\* vault = Path(vault_path) is a local of the call, with self.vault = ...
\* in its place.
InstanceAfterBegin_StoresVault(self, vault_path) ==
    {a \in self : a[1] # "vault"} \cup {<<"vault", vault_path>>}

\* What a call leaves on the shared instance when it begins: __init__ sets
\* no attribute and no method assigns one.
InstanceAfterBegin(self, vault_path) == self

IdleCall == [kind |-> "none", vault_path |-> <<>>, status |-> "idle",
             bundle |-> <<>>, error |-> <<>>]

\* A call after its next entry is resolved: the entry is added, and with
\* the last one the dict is returned; an exception ends the call.
AfterResolve(files, propagates, call) ==
    LET keys == Keys(call.kind)
        key == keys[Len(call.bundle) + 1]
        r == ResolveEntry(files, propagates, call.kind, call.vault_path, key)
    IN  IF r.raised
        THEN [call EXCEPT !.status = "raised", !.error = r.value]
        ELSE [call EXCEPT !.bundle = Append(@, [key |-> key, value |-> r.value]),
                          !.status = IF Len(call.bundle) + 1 = Len(keys)
                                     THEN "returned" ELSE "running"]

\* A call that has just begun: nothing resolved yet.
StartedCall(kind, vault_path) ==
    [kind |-> kind, vault_path |-> vault_path, status |-> "running",
     bundle |-> <<>>, error |-> <<>>]

---------------------------------------------------------------------------
(* The stores and requests explored.                                       *)

MaxCalls == 2
CallIds == 1..MaxCalls

Vault_V == <<"v">>
Vault_U == <<"u">>
Vaults == {Vault_V, Vault_U}

Str_AlMd == <<"A", "l", ".", "m", "d">>
Str_BobMd == <<"B", "o", "b", ".", "m", "d">>
Str_NTxt == <<"n", ".", "t", "x", "t">>
Str_Json == <<"{", "}">>

\* "a\r\nb\rc\n": a body with Windows and old-Mac line endings.
Bytes_MixedEndings == <<"a", CR, NL, "b", CR, "c", NL>>
\* "hi\n"
Bytes_Hi == <<"h", "i", NL>>
\* "hi" followed by a byte that is not UTF-8
Bytes_Undecodable == <<"h", "i", InvalidByte>>

Book2Nodes == {File(Bytes_MixedEndings), Missing}
StoryBibleNodes == {File(Bytes_Hi), Unreadable}
ExtractionsNodes == {File(Bytes_Hi), File(Bytes_Undecodable)}
SlidingWindowNodes == {File(Bytes_Hi), Missing}
SmartConnectionsNodes ==
    {Missing, File(Str_Json), File(Bytes_Hi), Unreadable, Unsearchable}
CharacterFolderNodes == {Missing, Dir(<<Str_AlMd, Str_BobMd, Str_NTxt>>)}

FolderOf(vault) == PathJoin(vault, Settings.character_folder)

Paths ==
    UNION {{PathJoin(vault, Settings.book2), PathJoin(vault, Settings.story_bible),
            PathJoin(vault, Settings.extractions),
            PathJoin(vault, Settings.sliding_window),
            PathJoin(vault, SmartConnectionsData), FolderOf(vault),
            PathJoin(FolderOf(vault), Str_AlMd), PathJoin(FolderOf(vault), Str_BobMd),
            PathJoin(FolderOf(vault), Str_NTxt)} : vault \in Vaults}

\* Vault "v" holds the nodes given; vault "u" holds one book and one index.
Store(b, s, e, w, sc, c) ==
    [p \in Paths |->
        CASE p = PathJoin(Vault_V, Settings.book2) -> b
          [] p = PathJoin(Vault_V, Settings.story_bible) -> s
          [] p = PathJoin(Vault_V, Settings.extractions) -> e
          [] p = PathJoin(Vault_V, Settings.sliding_window) -> w
          [] p = PathJoin(Vault_V, SmartConnectionsData) -> sc
          [] p = FolderOf(Vault_V) -> c
          [] p = PathJoin(FolderOf(Vault_V), Str_AlMd) ->
                 IF c.st = "dir" THEN File(Bytes_MixedEndings) ELSE Missing
          [] p = PathJoin(FolderOf(Vault_V), Str_BobMd) ->
                 IF c.st = "dir" THEN Unreadable ELSE Missing
          [] p = PathJoin(FolderOf(Vault_V), Str_NTxt) ->
                 IF c.st = "dir" THEN File(Bytes_Hi) ELSE Missing
          [] p = PathJoin(Vault_U, Settings.book2) -> File(Bytes_Hi)
          [] p = PathJoin(Vault_U, SmartConnectionsData) -> File(Str_Json)
          [] OTHER -> Missing]

FileSystems ==
    {Store(b, s, e, w, sc, c) :
        b \in Book2Nodes, s \in StoryBibleNodes, e \in ExtractionsNodes,
        w \in SlidingWindowNodes, sc \in SmartConnectionsNodes,
        c \in CharacterFolderNodes}

\* Some node of the store denies its stat.
HasUnsearchable(files) == \E p \in DOMAIN files : files[p].st = "unsearchable"

---------------------------------------------------------------------------
(* Calls on the one ContextAggregator of main.py, interleaved.             *)

InitAgg ==
    /\ fs \in FileSystems
    /\ exists_propagates \in {x \in BOOLEAN : x => HasUnsearchable(fs)}
    /\ aggregator = {}
    /\ calls = [c \in CallIds |-> IdleCall]
    /\ overlap = FALSE
    /\ ParseIdle
    /\ FormatIdle
    /\ HandlersIdle

OthersRunning(c) == \E d \in CallIds \ {c} : calls[d].status = "running"

\* A request handler calls one of the three public methods.
BeginCall(c, kind, vault_path) ==
    /\ calls[c].status = "idle"
    /\ calls' = [calls EXCEPT ![c] = StartedCall(kind, vault_path)]
    /\ aggregator' = InstanceAfterBegin(aggregator, vault_path)
    /\ overlap' = (overlap \/ OthersRunning(c))
    /\ UNCHANGED <<fs, exists_propagates, parse_vars, format_vars, handler_vars>>

\* The call evaluates the next entry of its dict.
ResolveNext(c) ==
    /\ calls[c].status = "running"
    /\ calls' = [calls EXCEPT ![c] = AfterResolve(fs, exists_propagates, calls[c])]
    /\ overlap' = (overlap \/ OthersRunning(c))
    /\ UNCHANGED <<fs, exists_propagates, aggregator, parse_vars, format_vars,
                   handler_vars>>

NextAgg ==
    \/ \E c \in CallIds, kind \in Kinds, vault_path \in Vaults :
           BeginCall(c, kind, vault_path)
    \/ \E c \in CallIds : ResolveNext(c)

SpecAgg == InitAgg /\ [][NextAgg]_vars

---------------------------------------------------------------------------
(* Properties of the aggregator.                                           *)

\* The calls that have begun, and the entries of a call's dict.
Begun == {c \in CallIds : calls[c].status # "idle"}
Entries(c) == 1..Len(calls[c].bundle)

\* The key a call that raised was evaluating.
FailingKey(c) == Keys(calls[c].kind)[Len(calls[c].bundle) + 1]

\* The node a file entry of call c was read from.
NodeOf(c, key) == fs[PathJoin(calls[c].vault_path, Settings[key])]

\* The node is a file whose bytes are all valid UTF-8.
Decodable(node) ==
    node.st = "file" /\ \A k \in 1..Len(node.data) : node.data[k] # InvalidByte

\* v reads "[Error reading file: <cause>]" with some cause.
IsErrorPlaceholder(v) ==
    /\ StartsWithAt(v, 1, Str_ErrorReadingFile)
    /\ Len(v) > Len(Str_ErrorReadingFile) + 1
    /\ v[Len(v)] = "]"
    /\ Contains(v, <<"E", "r", "r", "o", "r">>)

\* The lines of a text, a line ending at "\r\n", "\r" or "\n".
RECURSIVE LinesFrom(_, _, _)
LinesFrom(s, start, p) ==
    IF p > Len(s) THEN <<SubSeq(s, start, Len(s))>>
    ELSE IF s[p] = CR /\ p < Len(s) /\ s[p + 1] = NL
    THEN <<SubSeq(s, start, p - 1)>> \o LinesFrom(s, p + 2, p + 2)
    ELSE IF s[p] \in {CR, NL}
    THEN <<SubSeq(s, start, p - 1)>> \o LinesFrom(s, p + 1, p + 1)
    ELSE LinesFrom(s, start, p + 1)

LinesOf(s) == LinesFrom(s, 1, 1)

\* The text with every line ending written "\n".
WithUnixEndings(s) == str_join(<<NL>>, LinesOf(s))

\* No call ends in an exception while reading a file.
NoRaiseInReadFile ==
    \A c \in Begun : calls[c].status = "raised" => FailingKey(c) \notin FileKeys

\* C7 (amended): _read_file never raises.  For a path whose read fails
\* (missing, permission denied, a directory, bytes that are not UTF-8) it
\* returns "[Error reading file: <cause>]", which holds the word "Error";
\* for a readable file it returns the text of the file with every line
\* ending ("\r\n" or "\r") read as "\n", and otherwise unchanged.
C7_ReadFileTotal ==
    /\ NoRaiseInReadFile
    /\ \A c \in Begun : \A i \in Entries(c) :
           LET entry == calls[c].bundle[i]
           IN  entry.key \in FileKeys =>
                   IF Decodable(NodeOf(c, entry.key))
                   THEN entry.value = WithUnixEndings(NodeOf(c, entry.key).data)
                   ELSE IsErrorPlaceholder(entry.value)

\* A returned chapter dict that read a body with "\r" in it, a missing file,
\* a file that denies reading and a file that is not UTF-8.
C7_Witness ==
    \E c \in Begun :
        /\ calls[c].status = "returned"
        /\ calls[c].kind = "chapter"
        /\ \E k \in 1..Len(NodeOf(c, "book2").data) : NodeOf(c, "book2").data[k] = CR
        /\ Decodable(NodeOf(c, "book2"))
        /\ NodeOf(c, "story_bible").st = "unreadable"
        /\ NodeOf(c, "extractions").st = "file" /\ ~Decodable(NodeOf(c, "extractions"))
        /\ NodeOf(c, "sliding_window").st = "missing"

\* C7 as stated: the body of a readable file is returned unchanged.
C7_Original ==
    /\ NoRaiseInReadFile
    /\ \A c \in Begun : \A i \in Entries(c) :
           LET entry == calls[c].bundle[i]
           IN  entry.key \in FileKeys =>
                   IF Decodable(NodeOf(c, entry.key))
                   THEN entry.value = NodeOf(c, entry.key).data
                   ELSE IsErrorPlaceholder(entry.value)

\* C8: get_chapter_context always returns, and what it returns holds the
\* five entries smart_connections, book2, story_bible, extractions and
\* sliding_window, whatever reads succeed or fail.
C8_BundleComplete ==
    \A c \in Begun :
        calls[c].kind = "chapter" =>
            /\ calls[c].status # "raised"
            /\ calls[c].status = "returned" =>
                   [i \in Entries(c) |-> calls[c].bundle[i].key] = Keys("chapter")

\* The call run to its end with no other call under way.
RECURSIVE Run(_, _, _)
Run(files, propagates, call) ==
    IF call.status # "running" THEN call
    ELSE Run(files, propagates, AfterResolve(files, propagates, call))

RunAlone(kind, vault_path) ==
    Run(fs, exists_propagates, StartedCall(kind, vault_path))

IsPrefix(a, b) == Len(a) <= Len(b) /\ SubSeq(b, 1, Len(a)) = a

\* C9: however two calls on the shared ContextAggregator interleave, each
\* ends as it ends when run alone on the same files (and has, until then,
\* built a part of that dict), and no call leaves an attribute on the shared
\* instance for another call to read.
C9_NoInterference ==
    /\ aggregator = {}
    /\ \A c \in Begun :
           LET alone == RunAlone(calls[c].kind, calls[c].vault_path)
           IN  IF calls[c].status = "running"
               THEN IsPrefix(calls[c].bundle, alone.bundle)
               ELSE calls[c] = alone

\* Two calls for different vaults and of different kinds overlapped, and
\* both have returned.
C9_Witness ==
    /\ overlap
    /\ \E c, d \in Begun :
           /\ calls[c].status = "returned" /\ calls[d].status = "returned"
           /\ calls[c].vault_path # calls[d].vault_path
           /\ calls[c].kind = "chapter" /\ calls[d].kind = "micro_edit"
           /\ calls[c].bundle # calls[d].bundle

---------------------------------------------------------------------------
(* The request handlers of main.py.                                        *)

\* "selectedText required"
Str_SelectedTextRequired ==
    <<"s","e","l","e","c","t","e","d","T","e","x","t"," ","r","e","q",
      "u","i","r","e","d">>

\* "Unsupported provider: "
Str_UnsupportedProvider ==
    <<"U","n","s","u","p","p","o","r","t","e","d"," ","p","r","o","v",
      "i","d","e","r",":"," ">>

\* "expected string or bytes-like object, got 'NoneType'"
Str_ExpectedString ==
    <<"e","x","p","e","c","t","e","d"," ","s","t","r","i","n","g"," ",
      "o","r"," ","b","y","t","e","s","-","l","i","k","e"," ","o","b",
      "j","e","c","t",","," ","g","o","t"," ","'","N","o","n","e","T",
      "y","p","e","'">>

\* An Optional[str]: None, or a string.
None == [text |-> <<>>, none |-> TRUE]
Some(text) == [text |-> text, none |-> FALSE]

\* bool(v) of an Optional[str]: None and "" are false.
Truthy(v) == ~v.none /\ v.text # <<>>

\* v or ""
OrEmpty(v) == IF Truthy(v) THEN v.text ELSE <<>>

\* An HTTP response: the status with, on failure, the detail, and on
\* success the body {"text": ...} or {"updates": ...}.
NoResponse == [updates |-> <<>>, text |-> None, status |-> 0, detail |-> <<>>]
HTTPException(status_code, detail) ==
    [updates |-> <<>>, text |-> None, status |-> status_code, detail |-> detail]
TextResponse(result) ==
    [updates |-> <<>>, text |-> result, status |-> 200, detail |-> <<>>]
UpdatesResponse(records) ==
    [updates |-> records, text |-> None, status |-> 200, detail |-> <<>>]

\* str(status_code) for the three-digit codes.
StatusDigits(n) ==
    <<DigitChars[(n \div 100) + 1], DigitChars[((n \div 10) % 10) + 1],
      DigitChars[(n % 10) + 1]>>

\* str(e) of an HTTPException built with keyword arguments: Starlette's
\* __str__ gives "<status_code>: <detail>"; a release without __str__
\* gives "", the exception having no positional args.
str_HTTPException(has_str, e) ==
    IF has_str THEN StatusDigits(e.status) \o <<":", " ">> \o e.detail ELSE <<>>

\* except Exception as e: raise HTTPException(status_code=500, detail=str(e))
\* The clause of the three handlers: it catches whatever the try raised.
ExceptClause(msg) == HTTPException(500, msg)

\* context.get(key, '')
ContextGet(context, key) ==
    IF \E i \in 1..Len(context) : context[i].key = key
    THEN context[CHOOSE i \in 1..Len(context) : context[i].key = key].value
    ELSE <<>>

\* A prompt is written as the values its template interpolates, in the
\* order of the template, each under the title of its section; the fixed
\* text between them is left out.
Part(section, text) == [section |-> section, text |-> text]

\* PromptEngine.build_chapter_prompt
build_chapter_prompt(context, instructions, word_count) ==
    <<Part("BOOK 1 - CANON", ContextGet(context, "smart_connections")),
      Part("BOOK 2 - ACTIVE MANUSCRIPT", ContextGet(context, "book2")),
      Part("STORY BIBLE + EXTRACTIONS",
           ContextGet(context, "story_bible") \o <<NL>>
               \o ContextGet(context, "extractions")),
      Part("SLIDING WINDOW", ContextGet(context, "sliding_window")),
      Part("AUTHOR INSTRUCTIONS", instructions),
      Part("TARGET WORD COUNT", word_count \o <<" ", "w", "o", "r", "d", "s">>)>>

\* PromptEngine.build_micro_edit_prompt
build_micro_edit_prompt(selected_text, director_notes, context) ==
    <<Part("SELECTED PASSAGE TO EDIT", selected_text),
      Part("AUTHOR GRIEVANCES + DIRECTIVES", director_notes),
      Part("IMMEDIATE CONTEXT", ContextGet(context, "sliding_window")),
      Part("STORY BIBLE + EXTRACTIONS",
           ContextGet(context, "story_bible") \o <<NL>>
               \o ContextGet(context, "extractions")),
      Part("CHARACTER NOTES", ContextGet(context, "character_notes")),
      Part("SMART CONNECTIONS", ContextGet(context, "smart_connections"))>>

\* PromptEngine.build_character_extraction_prompt; character_notes is the
\* dict in insertion order.
build_character_extraction_prompt(selected_text, notes, story_bible) ==
    LET character_notes_text ==
            str_join(<<NL, NL>>,
                     [i \in 1..Len(notes) |->
                          H2 \o notes[i].name \o <<NL>> \o notes[i].content])
    IN  <<Part("PASSAGE TO ANALYZE", selected_text),
          Part("EXISTING CHARACTER NOTES", character_notes_text),
          Part("STORY BIBLE", story_bible)>>

\* The providers AIClient.generate dispatches to.
SupportedProviders ==
    {<<"o","p","e","n","a","i">>, <<"a","n","t","h","r","o","p","i","c">>,
     <<"g","e","m","i","n","i">>}

\* AIClient.generate: reply is what the provider's SDK does when called,
\* the text of the model (None when the message has no content) or an
\* exception.  No provider is called for an unknown name.
generate(prompt, provider, reply) ==
    IF provider \in SupportedProviders THEN reply
    ELSE Raise(Str_UnsupportedProvider \o provider)

\* character_extractor.parse_extraction(extraction_result): re.split
\* raises TypeError on None.
parse_result(result) ==
    IF result.none THEN Raise(Str_ExpectedString)
    ELSE Return(parse_extraction(result.text))

\* A request before it arrives, and as the handler is entered.
IdleRequest ==
    [vault_path |-> <<>>, result |-> None, context |-> <<>>, prompt |-> <<>>,
     provider |-> <<>>, handler |-> "none", selectedText |-> None, pc |-> "idle",
     generate_calls |-> 0, provider_calls |-> 0, parser_calls |-> 0,
     provider_error |-> None, response |-> NoResponse]

NewRequest(handler, selectedText, provider, vault_path) ==
    [IdleRequest EXCEPT !.handler = handler, !.selectedText = selectedText,
                        !.provider = provider, !.vault_path = vault_path,
                        !.pc = "received"]

\* The try block raised: the except clause answers, and the handler ends.
Failed(req, msg) ==
    [req EXCEPT !.pc = "responded", !.response = ExceptClause(msg)]

\* generate_micro_edit: if not request.selectedText: raise HTTPException(400)
\* The raise stands inside the try, so the except clause catches it.
AfterCheck(has_str, req) ==
    IF ~Truthy(req.selectedText)
    THEN Failed(req, str_HTTPException(
                         has_str, HTTPException(400, Str_SelectedTextRequired)))
    ELSE [req EXCEPT !.pc = "checked"]

\* The context of a handler: the dict of get_chapter_context or of
\* get_micro_edit_context, or, in extract_characters, the character notes
\* and the story bible.
HandlerContext(files, propagates, req) ==
    IF req.handler = "extract_characters"
    THEN LET notes == get_all_character_notes(
                          files, PathJoin(req.vault_path, Settings.character_folder),
                          propagates)
             story_bible ==
                 read_file(files, PathJoin(req.vault_path, Settings.story_bible))
         IN  IF notes.raised THEN notes
             ELSE Return(<<[value |-> notes.value, key |-> "character_notes"],
                           [value |-> story_bible.value, key |-> "story_bible"]>>)
    ELSE LET call == Run(files, propagates,
                         StartedCall(IF req.handler = "generate_chapter"
                                     THEN "chapter" ELSE "micro_edit",
                                     req.vault_path))
         IN  IF call.status = "raised" THEN Raise(call.error)
             ELSE Return(call.bundle)

AfterAggregate(files, propagates, req) ==
    LET c == HandlerContext(files, propagates, req)
    IN  IF c.raised THEN Failed(req, c.value)
        ELSE [req EXCEPT !.pc = "aggregated", !.context = c.value]

\* request.wordCount, by default 2000, as the f-string writes it.
Str_WordCount == <<"2", "0", "0", "0">>

\* The prompt of a handler; directorNotes is absent, so its place is "".
HandlerPrompt(req) ==
    CASE req.handler = "generate_chapter" ->
             build_chapter_prompt(req.context, OrEmpty(None), Str_WordCount)
      [] req.handler = "generate_micro_edit" ->
             build_micro_edit_prompt(req.selectedText.text, OrEmpty(None), req.context)
      [] req.handler = "extract_characters" ->
             build_character_extraction_prompt(
                 req.selectedText.text, ContextGet(req.context, "character_notes"),
                 ContextGet(req.context, "story_bible"))

AfterBuildPrompt(req) ==
    [req EXCEPT !.pc = "prompted", !.prompt = HandlerPrompt(req)]

\* The handler calls ai_client.generate again when it has failed.
AfterGenerate_Retry(req, reply) ==
    LET r == generate(req.prompt, req.provider, reply)
        called == req.provider \in SupportedProviders
        counted == [req EXCEPT !.generate_calls = @ + 1,
                               !.provider_calls = IF called THEN @ + 1 ELSE @,
                               !.provider_error =
                                   IF called /\ reply.raised THEN Some(reply.value) ELSE @]
    IN  IF r.raised THEN counted
        ELSE [counted EXCEPT !.pc = "generated", !.result = r.value]

\* result = await ai_client.generate(...): the calls are counted, and the
\* message of a failed provider call is kept (history).
AfterGenerate(req, reply) ==
    LET r == generate(req.prompt, req.provider, reply)
        called == req.provider \in SupportedProviders
        counted == [req EXCEPT !.generate_calls = @ + 1,
                               !.provider_calls = IF called THEN @ + 1 ELSE @,
                               !.provider_error =
                                   IF called /\ reply.raised THEN Some(reply.value) ELSE @]
    IN  IF r.raised THEN Failed(counted, r.value)
        ELSE [counted EXCEPT !.pc = "generated", !.result = r.value]

\* updates = character_extractor.parse_extraction(extraction_result);
\* return {"updates": updates}
AfterParse(req) ==
    LET u == parse_result(req.result)
        counted == [req EXCEPT !.parser_calls = @ + 1]
    IN  IF u.raised THEN Failed(counted, u.value)
        ELSE [counted EXCEPT !.pc = "responded", !.response = UpdatesResponse(u.value)]

\* return {"text": result}
AfterReturnText(req) ==
    [req EXCEPT !.pc = "responded", !.response = TextResponse(req.result)]

---------------------------------------------------------------------------
(* The requests explored.                                                  *)

MaxRequests == 2
RequestIds == 1..MaxRequests

Handlers == {"generate_chapter", "generate_micro_edit", "extract_characters"}

\* request.selectedText: Optional in GenerateRequest, required in
\* ExtractRequest; generate_chapter does not read it.
SelectedTexts(handler) ==
    CASE handler = "generate_chapter" -> {None}
      [] handler = "generate_micro_edit" -> {None, Some(<<>>), Some(Str_Hi)}
      [] handler = "extract_characters" -> {Some(Str_Hi)}

\* request.settings['apiProvider']: one that generate knows, one it does not.
Providers == {<<"o","p","e","n","a","i">>, <<"l","l","a","m","a">>}

\* "Rate limit exceeded"
Str_RateLimit ==
    <<"R","a","t","e"," ","l","i","m","i","t"," ","e","x","c","e","e",
      "d","e","d">>

\* What the provider does when called: a text in the requested format, a
\* prose text, a message without content, or a failure with its message.
Replies ==
    {Return(Some(Block_EmptySection \o Block_BobSection)),
     Return(Some(Block_Prose)), Return(None), Raise(Str_RateLimit)}

\* A vault that reads well, and one whose .obsidian denies search.
HandlerStores ==
    {Store(File(Bytes_MixedEndings), Unreadable, File(Bytes_Hi), Missing, sc,
           Dir(<<Str_AlMd, Str_BobMd, Str_NTxt>>)) :
        sc \in {File(Str_Json), Unsearchable}}

---------------------------------------------------------------------------
(* The handlers as processes: a request arrives and its handler runs, one  *)
(* statement at a time.                                                    *)

InitHandlers ==
    /\ fs \in HandlerStores
    /\ exists_propagates \in {x \in BOOLEAN : x => HasUnsearchable(fs)}
    /\ http_exception_has_str \in BOOLEAN
    /\ requests = [r \in RequestIds |-> IdleRequest]
    /\ aggregator = {}
    /\ calls = <<>>
    /\ overlap = FALSE
    /\ ParseIdle
    /\ FormatIdle

Step(r, req) ==
    /\ requests' = [requests EXCEPT ![r] = req]
    /\ UNCHANGED <<http_exception_has_str, parse_vars, format_vars, agg_vars>>

\* FastAPI hands the request to its handler.
Receive(r, handler, selectedText, provider) ==
    /\ requests[r].pc = "idle"
    /\ Step(r, NewRequest(handler, selectedText, provider, Vault_V))

\* generate_micro_edit tests request.selectedText.
CheckSelectedText(r) ==
    /\ requests[r].pc = "received"
    /\ requests[r].handler = "generate_micro_edit"
    /\ Step(r, AfterCheck(http_exception_has_str, requests[r]))

\* The handler aggregates its context.
AggregateContext(r) ==
    /\ \/ requests[r].pc = "received" /\ requests[r].handler # "generate_micro_edit"
       \/ requests[r].pc = "checked"
    /\ Step(r, AfterAggregate(fs, exists_propagates, requests[r]))

\* The handler builds its prompt.
BuildPrompt(r) ==
    /\ requests[r].pc = "aggregated"
    /\ Step(r, AfterBuildPrompt(requests[r]))

\* The handler calls ai_client.generate.
Generate(r, reply) ==
    /\ requests[r].pc = "prompted"
    /\ Step(r, AfterGenerate(requests[r], reply))

\* extract_characters parses the reply and returns the updates.
ParseUpdates(r) ==
    /\ requests[r].pc = "generated"
    /\ requests[r].handler = "extract_characters"
    /\ Step(r, AfterParse(requests[r]))

\* generate_chapter and generate_micro_edit return the text.
ReturnText(r) ==
    /\ requests[r].pc = "generated"
    /\ requests[r].handler # "extract_characters"
    /\ Step(r, AfterReturnText(requests[r]))

NextHandlers ==
    \/ \E r \in RequestIds, handler \in Handlers, provider \in Providers :
           \E selectedText \in SelectedTexts(handler) :
               Receive(r, handler, selectedText, provider)
    \/ \E r \in RequestIds : CheckSelectedText(r)
    \/ \E r \in RequestIds : AggregateContext(r)
    \/ \E r \in RequestIds : BuildPrompt(r)
    \/ \E r \in RequestIds, reply \in Replies : Generate(r, reply)
    \/ \E r \in RequestIds : ParseUpdates(r)
    \/ \E r \in RequestIds : ReturnText(r)

SpecHandlers == InitHandlers /\ [][NextHandlers]_vars

---------------------------------------------------------------------------
(* Properties of the handlers.                                             *)

\* The requests whose handler has answered.
Responded == {r \in RequestIds : requests[r].pc = "responded"}

\* A generate_micro_edit request whose selectedText is absent or empty.
LacksSelectedText(req) ==
    req.handler = "generate_micro_edit" /\ ~Truthy(req.selectedText)

\* C11: a generate_micro_edit request whose selectedText is absent or empty
\* is answered with HTTP status 400 and the detail "selectedText required".
C11_MissingSelectedText400 ==
    \A r \in Responded :
        LacksSelectedText(requests[r]) =>
            /\ requests[r].response.status = 400
            /\ requests[r].response.detail = Str_SelectedTextRequired

\* The provider was called for the request and failed.
ProviderFailed(req) == ~req.provider_error.none

\* C12: in each of the three handlers ai_client.generate, and through it
\* the provider, is called at most once for a request, and only when the
\* context has been aggregated and the prompt built from it; when the call
\* of the provider fails the request is answered once, with a failure whose
\* detail is the provider's message, no second call is made, and the parser
\* of extract_characters has not run.
C12_ProviderOnceAfterPrompt ==
    \A r \in RequestIds :
        LET req == requests[r]
        IN  /\ req.generate_calls <= 1
            /\ req.provider_calls <= req.generate_calls
            /\ req.generate_calls = 1 =>
                   /\ req.pc \in {"generated", "responded"}
                   /\ Return(req.context) = HandlerContext(fs, exists_propagates, req)
                   /\ req.prompt = HandlerPrompt(req)
            /\ req.parser_calls <= 1
            /\ req.parser_calls = 1 =>
                   req.handler = "extract_characters" /\ req.provider_calls = 1
            /\ ProviderFailed(req) =>
                   /\ req.pc = "responded"
                   /\ req.response = HTTPException(500, req.provider_error.text)
                   /\ req.provider_calls = 1
                   /\ req.parser_calls = 0

\* An extract_characters request whose provider call failed has been
\* answered, and another whose provider call succeeded has been parsed and
\* answered with its updates.
C12_Witness ==
    \E r, q \in Responded :
        /\ requests[r].handler = "extract_characters"
        /\ ProviderFailed(requests[r])
        /\ requests[r].response.status = 500
        /\ requests[q].handler = "extract_characters"
        /\ requests[q].parser_calls = 1
        /\ requests[q].response.status = 200
        /\ requests[q].response.updates # <<>>

=============================================================================
